---- MODULE Spec2Model ----
(***************************************************************************)
(* A model of mcts/uct.py: the UCT decision engine (class UCT and its two  *)
(* subclasses UCTWins and UCTValues) driven by a board collaborator.       *)
(*                                                                         *)
(* The board is external to uct.py.  It is modelled as a member of a       *)
(* small family of finite games (Boards) whose query functions depend on   *)
(* the last state of the history they are given.  States are numbered      *)
(* 1..n, players are 1 and 2, and an action is the index of a move in the  *)
(* position's move list.                                                   *)
(***************************************************************************)
EXTENDS Integers, Sequences, FiniteSets, TLC

\* ------------------------------------------------------------------ bounds
MaxGames == 3
MaxActions == 3
MaxCycles == 2
MaxHist == 2

\* ------------------------------------------------------------------ boards
\* cur[s]: the player to act at s; succ[s]: the successor of each legal
\* action at s; ended[s]: the terminal test; win[s][p], points[s][p]: the
\* reward of player p when a playout stops at s; roots: the states the
\* caller may supply through update.
OnePly ==
  [ cur    |-> <<1, 2, 2>>,
    succ   |-> << <<2, 3>>, <<>>, <<>> >>,
    ended  |-> <<FALSE, TRUE, TRUE>>,
    win    |-> << <<0, 0>>, <<1, 0>>, <<0, 1>> >>,
    points |-> << <<0, 0>>, <<3, 0>>, <<0, 3>> >>,
    roots  |-> {1} ]

\* A two-ply tree; state 3 has a single (forced) move and state 4 is reached
\* by player 2 from both 2 and 3.
TwoPly ==
  [ cur    |-> <<1, 2, 2, 1, 1>>,
    succ   |-> << <<2, 3>>, <<4, 5>>, <<4>>, <<>>, <<>> >>,
    ended  |-> <<FALSE, FALSE, FALSE, TRUE, TRUE>>,
    win    |-> << <<0, 0>>, <<0, 0>>, <<0, 0>>, <<1, 0>>, <<0, 1>> >>,
    points |-> << <<0, 0>>, <<0, 0>>, <<0, 0>>, <<2, 1>>, <<0, 3>> >>,
    roots  |-> {1, 3} ]

\* Player 1 moves twice in a row (1 -> 2 -> 3) and may return to the root
\* (2 -> 1), so a state recurs along one playout and state 3 is reached by
\* the same mover from two positions.
Recur ==
  [ cur    |-> <<1, 1, 2>>,
    succ   |-> << <<2, 3>>, <<3, 1>>, <<>> >>,
    ended  |-> <<FALSE, FALSE, TRUE>>,
    win    |-> << <<0, 0>>, <<0, 0>>, <<1, 0>> >>,
    points |-> << <<0, 0>>, <<1, 1>>, <<2, 0>> >>,
    roots  |-> {1} ]

\* State 2 is not terminal and has no legal action.
Stalemate ==
  [ cur    |-> <<1, 2, 2>>,
    succ   |-> << <<2, 3>>, <<>>, <<>> >>,
    ended  |-> <<FALSE, FALSE, TRUE>>,
    win    |-> << <<0, 0>>, <<0, 0>>, <<1, 0>> >>,
    points |-> << <<0, 0>>, <<0, 0>>, <<2, 0>> >>,
    roots  |-> {1, 2} ]

\* Two root actions lead to the same state (3), and positions 1 and 4 of
\* player 1 share the successor 3 but not 5.
Shared ==
  [ cur    |-> <<1, 2, 2, 1, 2>>,
    succ   |-> << <<2, 3, 3>>, <<4>>, <<>>, <<3, 5>>, <<>> >>,
    ended  |-> <<FALSE, FALSE, TRUE, FALSE, TRUE>>,
    win    |-> << <<0, 0>>, <<0, 0>>, <<0, 1>>, <<0, 0>>, <<1, 0>> >>,
    points |-> << <<0, 0>>, <<0, 0>>, <<1, 2>>, <<0, 0>>, <<3, 0>> >>,
    roots  |-> {1} ]

Boards == <<OnePly, TwoPly, Recur, Stalemate, Shared>>

Kinds == {"wins", "values"}

\* The exploration constant in tenths: 14 is the default 1.4.
CValues == {0, 14}

\* Time is counted in units of a positive budget: a clock reading of 0 is
\* inside such a budget, a reading of 1 is at or past it.  A budget of 0 is
\* spent at every reading.
Budgets == {0, 1}
Readings == {0, 1}

VARIABLES
  board, kind,              \* the collaborator and the engine class
  calculation_time, max_actions, C,
  history, stats, max_depth, data,
  pc, result, cycle,
  state, player, legal, games, elapsed,            \* locals of get_action
  visited_states, history_copy, sim_player, expand, t, \* locals of run_simulation
  \* Records kept for the properties: invoked counts the calls of
  \* run_simulation in the cycle; stale says the table held entries when
  \* get_action was called; first_missing is the first step of the
  \* simulation at which a candidate key was absent (0: none); grew is the
  \* set of steps of the simulation at which the table gained a key;
  \* supplied is the sequence of states handed to update; deepest is the
  \* largest step of the cycle at which the table gained a key (0: none).
  invoked, stale, first_missing, grew, supplied, deepest

vars == <<board, kind, calculation_time, max_actions, C, history, stats,
          max_depth, data, pc, result, cycle, state, player, legal, games,
          elapsed, visited_states, history_copy, sim_player, expand, t,
          invoked, stale, first_missing, grew, supplied, deepest>>

config == <<board, kind, calculation_time, max_actions, C>>
getLocals == <<state, player, legal, games, elapsed>>
simLocals == <<visited_states, history_copy, sim_player, expand, t>>
simRecords == <<first_missing, grew>>

Last(h) == h[Len(h)]
None == <<"null">>
EmptyStats == <<>>
NoResult == [type |-> "none", message |-> None, extras |-> <<>>]

\* ------------------------------------------------------- the board's queries
B == Boards[board]
current_player(s) == B.cur[s]
legal_actions(h) == [a \in 1..Len(B.succ[Last(h)]) |-> a]
next_state(h, a) == B.succ[Last(h)][a]
is_ended(h) == B.ended[Last(h)]
win_values(h) == B.win[Last(h)]
points_values(h) == B.points[Last(h)]
Raw(s) == <<"raw", s>>
to_compact_state(raw) == raw[2]
to_json_action(a) == <<"json", a>>

\* ------------------------------------------------------------- class members
name == IF kind = "wins" THEN "jrb.mcts.uct" ELSE "jrb.mcts.uctv"
end_values(h) == IF kind = "wins" THEN win_values(h) ELSE points_values(h)
Stat == [value |-> 0, visits |-> 0]

Init ==
  /\ board \in 1..Len(Boards)
  /\ kind \in Kinds
  /\ calculation_time \in Budgets
  /\ max_actions \in 0..MaxActions
  /\ C \in CValues
  /\ history = <<>>
  /\ stats = EmptyStats
  /\ max_depth = 0
  /\ data = <<>>
  /\ pc = "idle"
  /\ result = NoResult
  /\ cycle = 0
  /\ state = 0 /\ player = 0 /\ legal = <<>> /\ games = 0 /\ elapsed = 0
  /\ visited_states = <<>> /\ history_copy = <<>> /\ sim_player = 0
  /\ expand = TRUE /\ t = 0
  /\ invoked = 0 /\ stale = FALSE /\ first_missing = 0 /\ grew = {}
  /\ supplied = <<>> /\ deepest = 0

\* ------------------------------------------------------------ UCB1 arithmetic
\* uct.py computes UCB1 scores in floating point.  Here a score is an
\* integer number of 1e-7 units: LnMicro(n) is floor(1e6 * ln n), Root(x) is
\* 1000 * sqrt(x) by an integer square root and one linear correction.  For
\* every pair of entries with visits <= 24 and value <= 3 * visits the
\* order and the ties of these integers are those of the float scores.
LnTable ==
  <<0, 693147, 1098612, 1386294, 1609437, 1791759, 1945910, 2079441, 2197224,
    2302585, 2397895, 2484906, 2564949, 2639057, 2708050, 2772588, 2833213,
    2890371, 2944438, 2995732, 3044522, 3091042, 3135494, 3178053>>
LnMicro(n) == LnTable[n]

RECURSIVE IsqrtIn(_, _, _)
IsqrtIn(x, lo, hi) ==
  IF lo >= hi THEN lo
  ELSE LET mid == (lo + hi + 1) \div 2
       IN IF mid * mid <= x THEN IsqrtIn(x, mid, hi) ELSE IsqrtIn(x, lo, mid - 1)
Isqrt(x) == IsqrtIn(x, 0, 46340)
Root(x) ==
  IF x = 0 THEN 0
  ELSE LET r == Isqrt(x) IN r * 1000 + ((x - r * r) * 1000) \div (2 * r + 1)

\* ------------------------------------------------------------ run_simulation
Key(p, S) == <<p, S>>

\* actions_states = [(a, next_state(history_copy, a)) for a in legal]
ActionsStates(h) ==
  LET lg == legal_actions(h) IN [i \in 1..Len(lg) |-> <<lg[i], next_state(h, lg[i])>>]

\* all((player, S) in stats for a, S in actions_states)
AllPresent(st, p, as) == \A i \in 1..Len(as) : Key(p, as[i][2]) \in DOMAIN st

\* stats.update(((player, S), Stat()) for a, S in actions_states
\*              if (player, S) not in stats)
Inserted_Overwriting(st, p, as) ==
  [k \in {Key(p, as[i][2]) : i \in 1..Len(as)} |-> Stat] @@ st
Inserted_OnlyFirst(st, p, as) ==
  LET missing == {i \in 1..Len(as) : Key(p, as[i][2]) \notin DOMAIN st}
      first == CHOOSE i \in missing : \A j \in missing : i <= j
  IN (Key(p, as[first][2]) :> Stat) @@ st
Inserted(st, p, as) ==
  LET missing == {Key(p, as[i][2]) : i \in 1..Len(as)} \ DOMAIN st
  IN [k \in missing |-> Stat] @@ st

\* Lines 110-117: the expansion decision of one step.
ShouldExpand(ex, st, p, as) == ex /\ ~AllPresent(st, p, as)
ExpandFlagAfter_Kept(ex, st, p, as) == ex
ExpandFlagAfter(ex, st, p, as) == IF ShouldExpand(ex, st, p, as) THEN FALSE ELSE ex
DepthAfter_AnyStep(ex, st, p, as, step, md) == IF step > md THEN step ELSE md
DepthAfter(ex, st, p, as, step, md) ==
  IF ShouldExpand(ex, st, p, as) /\ step > md THEN step ELSE md

OrOne(n) == IF n = 0 THEN 1 ELSE n

RECURSIVE SumVisits(_, _, _)
SumVisits(st, p, as) ==
  IF as = <<>> THEN 0
  ELSE st[Key(p, Head(as)[2])].visits + SumVisits(st, p, Tail(as))

\* log(sum(...) or 1), in 1e-6 units
LogTotal(st, p, as) == LnMicro(OrOne(SumVisits(st, p, as)))

\* (e.value / (e.visits or 1)) + self.C * sqrt(log_total / (e.visits or 1))
UcbValue_NoExploration(e, log_total) == (e.value * 10000000) \div OrOne(e.visits)
UcbValue(e, log_total) ==
  (e.value * 10000000) \div OrOne(e.visits)
    + Root((C * C * log_total) \div OrOne(e.visits))

ValuesActions(st, p, as) ==
  LET lt == LogTotal(st, p, as)
  IN [i \in 1..Len(as) |-> <<as[i][1], as[i][2], UcbValue(st[Key(p, as[i][2])], lt)>>]

MaxValue(va) ==
  CHOOSE v \in {va[i][3] : i \in 1..Len(va)} : \A i \in 1..Len(va) : va[i][3] <= v

\* [(a, S) for a, S, v in values_actions if v == max_value]
RECURSIVE Best(_, _)
Best(va, mx) ==
  IF va = <<>> THEN <<>>
  ELSE LET rest == Best(Tail(va), mx)
       IN IF Head(va)[3] = mx THEN <<<<Head(va)[1], Head(va)[2]>>>> \o rest ELSE rest

\* Lines 119-128: the candidates left by UCB1 (the table holds every key).
UcbFiltered(st, p, as) ==
  LET va == ValuesActions(st, p, as) IN Best(va, MaxValue(va))

\* The candidate list handed to choice(): UCB1 is applied under `if expand`,
\* the flag as it was when the step began.
Candidates_Unfiltered(ex, st, p, as) == as
Candidates(ex, st, p, as) == IF ex THEN UcbFiltered(st, p, as) ELSE as

\* Lines 141-146: back-propagation over the visited list.
RECURSIVE Credit_Twice(_, _, _)
Credit_Twice(st, vs, ev) ==
  IF vs = <<>> THEN st
  ELSE LET k == Head(vs)
       IN IF k \notin DOMAIN st THEN Credit_Twice(st, Tail(vs), ev)
          ELSE Credit_Twice([st EXCEPT ![k] = [value |-> @.value + ev[k[1]],
                                               visits |-> @.visits + 2]],
                            Tail(vs), ev)
RECURSIVE Credit_Creating(_, _, _)
Credit_Creating(st, vs, ev) ==
  IF vs = <<>> THEN st
  ELSE LET k == Head(vs)
           e == IF k \in DOMAIN st THEN st[k] ELSE Stat
       IN Credit_Creating((k :> [value |-> e.value + ev[k[1]],
                                 visits |-> e.visits + 1]) @@ st,
                          Tail(vs), ev)
Credit_SkipFirst(st, vs, ev) ==
  [k \in DOMAIN st |->
     LET n == Cardinality({i \in 2..Len(vs) : vs[i] = k})
     IN [value |-> st[k].value + n * ev[k[1]], visits |-> st[k].visits + n]]
Credit_Once(st, vs, ev) ==
  [k \in DOMAIN st |->
     IF \E i \in 1..Len(vs) : vs[i] = k
     THEN [value |-> st[k].value + ev[k[1]], visits |-> st[k].visits + 1]
     ELSE st[k]]
RECURSIVE Credit(_, _, _)
Credit(st, vs, ev) ==
  IF vs = <<>> THEN st
  ELSE LET k == Head(vs)
       IN IF k \notin DOMAIN st THEN Credit(st, Tail(vs), ev)
          ELSE Credit([st EXCEPT ![k] = [value |-> @.value + ev[k[1]],
                                         visits |-> @.visits + 1]],
                      Tail(vs), ev)

\* ------------------------------------------------- calculate_action_values
\* A score is the exact quotient num / den (den > 0) of the float division.
Quot(n, d) == [num |-> n, den |-> d]
QuotLess(x, y) == x.num * y.den < y.num * x.den
QuotEq(x, y) == x.num * y.den = y.num * x.den

\* One record of the ranked list, from the entry e of action a.
\* UCTWins:   {'action', 'percent': 100 * value / (visits or 1), 'wins', 'plays'}
WinsRecord(a, e) ==
  [action |-> a, percent |-> Quot(100 * e.value, OrOne(e.visits)),
   wins |-> e.value, plays |-> e.visits]
\* UCTValues: {'action', 'average': value / (visits or 1), 'sum', 'plays'}
ValuesRecord(a, e) ==
  [action |-> a, average |-> Quot(e.value, OrOne(e.visits)),
   sum |-> e.value, plays |-> e.visits]
ActionRecord(a, e) == IF kind = "wins" THEN WinsRecord(a, e) ELSE ValuesRecord(a, e)

\* key=lambda x: (x['percent'], x['plays'])  /  (x['average'], x['plays'])
ScoreOf(r) == IF kind = "wins" THEN r.percent ELSE r.average
KeyLess(x, y) ==
  \/ QuotLess(ScoreOf(x), ScoreOf(y))
  \/ QuotEq(ScoreOf(x), ScoreOf(y)) /\ x.plays < y.plays

\* sorted(..., reverse=True): descending and stable.
RECURSIVE InsertDesc(_, _)
InsertDesc(sorted, x) ==
  IF sorted = <<>> THEN <<x>>
  ELSE IF KeyLess(Head(sorted), x) THEN <<x>> \o sorted
  ELSE <<Head(sorted)>> \o InsertDesc(Tail(sorted), x)
RECURSIVE SortedDesc(_, _)
SortedDesc(done, rest) ==
  IF rest = <<>> THEN done ELSE SortedDesc(InsertDesc(done, Head(rest)), Tail(rest))

\* self.stats[(player, S)] raises KeyError when the key is absent.
LookupFails(st, h, p, lg) ==
  \E i \in 1..Len(lg) : Key(p, next_state(h, lg[i])) \notin DOMAIN st

calculate_action_values(st, h, p, lg) ==
  SortedDesc(<<>>, [i \in 1..Len(lg) |->
                      ActionRecord(lg[i], st[Key(p, next_state(h, lg[i]))])])

\* ----------------------------------------------------------------- get_action
\* self.data = {'C': self.C, 'max_actions': self.max_actions, 'name': self.name}
InitialData_NoName == [C |-> C, max_actions |-> max_actions]
InitialData == [C |-> C, max_actions |-> max_actions, name |-> name]
\* self.stats.clear()
Cleared_Kept(st) == st
Cleared(st) == EmptyStats
\* if not legal: ... / if len(legal) == 1: ...
NoChoice_Never(lg) == FALSE
NoChoice(lg) == Len(lg) = 0
Forced_Never(lg) == FALSE
Forced(lg) == Len(lg) = 1
\* str(time.time() - begin)
str(x) == <<"str", x>>
Returned(msg, extras) == [type |-> "action", message |-> msg, extras |-> extras]
Raised(exc) == [type |-> "error", message |-> <<exc>>, extras |-> <<>>]

\* history_copy = self.history[:] is a copy: history_copy.append(state) at
\* line 132 leaves the shared history as it is.
HistoryAfterStep_Aliased(shared, working) == working
HistoryAfterStep(shared, working) == shared
\* games += 1
GamesAfter_Stuck(g) == g
GamesAfter(g) == g + 1

\* The frame of run_simulation before its first call and after get_action
\* has left the search loop.
NoSimulation ==
  /\ visited_states' = <<>> /\ history_copy' = <<>> /\ sim_player' = 0
  /\ expand' = TRUE /\ t' = 0
  /\ first_missing' = 0 /\ grew' = {}

Callable == pc \in {"idle", "returned", "raised"}

\* update(state)
Update(raw) ==
  /\ Callable
  /\ Len(history) < MaxHist
  /\ history' = Append(history, to_compact_state(raw))
  /\ supplied' = Append(supplied, raw)
  /\ pc' = "idle"
  /\ UNCHANGED <<config, stats, max_depth, data, result, cycle, getLocals,
                 simLocals, invoked, stale, simRecords, deepest>>

\* get_action, lines 48-67: reset, root, the two early returns, loop entry.
GetAction ==
  /\ Callable
  /\ cycle < MaxCycles
  /\ cycle' = cycle + 1
  /\ max_depth' = 0
  /\ data' = InitialData
  /\ stats' = Cleared(stats)
  /\ invoked' = 0
  /\ stale' = (stats # EmptyStats)
  /\ deepest' = 0
  /\ NoSimulation
  /\ IF history = <<>>
     THEN \* self.history[-1] raises IndexError
          /\ pc' = "raised"
          /\ result' = Raised("IndexError")
          /\ UNCHANGED getLocals
     ELSE LET lg == legal_actions(history)
          IN /\ state' = Last(history)
             /\ player' = current_player(Last(history))
             /\ legal' = lg
             /\ games' = 0
             /\ elapsed' = 0
             /\ IF NoChoice(lg)
                THEN pc' = "returned" /\ result' = Returned(None, InitialData)
                ELSE IF Forced(lg)
                THEN /\ pc' = "returned"
                     /\ result' = Returned(to_json_action(lg[1]), InitialData)
                ELSE pc' = "loop" /\ result' = NoResult
  /\ UNCHANGED <<config, history, supplied>>

\* while time.time() - begin < self.calculation_time: the clock is read as e;
\* inside the budget run_simulation is entered (lines 97-105), else the
\* loop is left.
DeadlineTest ==
  /\ pc = "loop"
  /\ \E e \in {r \in Readings : r >= elapsed} :
       /\ elapsed' = e
       /\ IF e < calculation_time
          THEN /\ games < MaxGames
               /\ visited_states' = <<>>
               /\ history_copy' = history
               /\ sim_player' = current_player(Last(history))
               /\ expand' = TRUE
               /\ t' = 1
               /\ invoked' = invoked + 1
               /\ first_missing' = 0
               /\ grew' = {}
               /\ pc' = IF 1 <= max_actions THEN "step" ELSE "backprop"
          ELSE /\ pc' = "rank"
               /\ UNCHANGED <<simLocals, invoked, simRecords>>
  /\ UNCHANGED <<config, history, stats, max_depth, data, result, cycle,
                 state, player, legal, games, stale, supplied, deepest>>

\* One iteration of the for loop of run_simulation, lines 106-137.
SimStep ==
  /\ pc = "step"
  /\ LET as     == ActionsStates(history_copy)
         grow   == ShouldExpand(expand, stats, sim_player, as)
         stats1 == IF grow THEN Inserted(stats, sim_player, as) ELSE stats
     IN /\ stats' = stats1
        /\ expand' = ExpandFlagAfter(expand, stats, sim_player, as)
        /\ max_depth' = DepthAfter(expand, stats, sim_player, as, t, max_depth)
        /\ first_missing' = IF first_missing = 0 /\ ~AllPresent(stats, sim_player, as)
                            THEN t ELSE first_missing
        /\ grew' = IF DOMAIN stats1 # DOMAIN stats THEN grew \cup {t} ELSE grew
        /\ deepest' = IF DOMAIN stats1 # DOMAIN stats /\ t > deepest THEN t ELSE deepest
        /\ IF expand /\ as = <<>>
           THEN \* max() of an empty sequence raises ValueError
                /\ pc' = "raised"
                /\ result' = Raised("ValueError")
                /\ UNCHANGED <<visited_states, history_copy, sim_player, t>>
           ELSE LET cands == Candidates(expand, stats1, sim_player, as)
                IN IF cands = <<>>
                   THEN \* choice() of an empty list raises IndexError
                        /\ pc' = "raised"
                        /\ result' = Raised("IndexError")
                        /\ UNCHANGED <<visited_states, history_copy, sim_player, t>>
                   ELSE \E i \in 1..Len(cands) :
                          LET S == cands[i][2]
                              h == Append(history_copy, S)
                          IN /\ visited_states' = Append(visited_states, Key(sim_player, S))
                             /\ history_copy' = h
                             /\ sim_player' = current_player(S)
                             /\ t' = t + 1
                             /\ pc' = IF is_ended(h) \/ t + 1 > max_actions
                                      THEN "backprop" ELSE "step"
                             /\ UNCHANGED result
  /\ history' = HistoryAfterStep(history, history_copy')
  /\ UNCHANGED <<config, data, cycle, getLocals, invoked, stale, supplied>>

\* Lines 139-146, then games += 1 in get_action.
Backprop ==
  /\ pc = "backprop"
  /\ stats' = Credit(stats, visited_states, end_values(history_copy))
  /\ games' = GamesAfter(games)
  /\ pc' = "loop"
  /\ UNCHANGED <<config, history, max_depth, data, result, cycle, state, player,
                 legal, elapsed, simLocals, invoked, stale, simRecords, supplied,
                 deepest>>

\* get_action, lines 74-89: diagnostics, ranking, the returned record.
Rank ==
  /\ pc = "rank"
  /\ \E e \in {r \in Readings : r >= elapsed} :
       LET d1 == [games |-> games, max_depth |-> max_depth, time |-> str(e)] @@ data
       IN /\ elapsed' = e
          /\ IF LookupFails(stats, history, player, legal)
             THEN /\ data' = d1
                  /\ pc' = "raised"
                  /\ result' = Raised("KeyError")
             ELSE LET ranked == calculate_action_values(stats, history, player, legal)
                      d2 == [actions |-> ranked] @@ d1
                  IN /\ data' = d2
                     /\ pc' = "returned"
                     /\ result' = Returned(to_json_action(ranked[1].action), d2)
  /\ NoSimulation
  /\ UNCHANGED <<config, history, stats, max_depth, cycle, state, player, legal,
                 games, invoked, stale, supplied, deepest>>

Next ==
  \/ \E s \in B.roots : Update(Raw(s))
  \/ GetAction
  \/ DeadlineTest
  \/ SimStep
  \/ Backprop
  \/ Rank

Spec == Init /\ [][Next]_vars

\* =============================================================== properties
\* The positions of get_action at which the search of a cycle is under way.
InSearch == pc \in {"loop", "step", "backprop", "rank"}
\* get_action has been called on a non-empty history and nothing was
\* supplied through update since.
InCycle == pc # "idle" /\ history # <<>>
RootLegal == legal_actions(history)
RootPlayer == current_player(Last(history))
BaseKeys == {"C", "max_actions", "name"}
AllKeys == BaseKeys \cup {"games", "max_depth", "time", "actions"}

\* C1. Forced-move law: in a cycle whose root has exactly one legal action,
\* get_action returns that action serialized, run_simulation is never
\* called, the table stays empty and no simulation is recorded.
ForcedMoveLaw ==
  (InCycle /\ Len(RootLegal) = 1) =>
     /\ pc = "returned"
     /\ result.type = "action"
     /\ result.message = to_json_action(RootLegal[1])
     /\ invoked = 0
     /\ DOMAIN stats = {}
     /\ ("games" \in DOMAIN result.extras => result.extras.games = 0)
ForcedMoveWitness ==
  /\ pc = "returned" /\ history # <<>> /\ Len(RootLegal) = 1
  /\ stale /\ result.message = <<"json", 1>>

\* C2. No-move law: in a cycle whose root has no legal action, get_action
\* returns a record of kind "action" with a null chosen action, and neither
\* run_simulation nor the ranker is called.
NoMoveLaw ==
  (InCycle /\ Len(RootLegal) = 0) =>
     /\ pc = "returned"
     /\ result.type = "action"
     /\ result.message = None
     /\ invoked = 0
     /\ DOMAIN data = BaseKeys
NoMoveWitness ==
  /\ pc = "returned" /\ history # <<>> /\ Len(RootLegal) = 0
  /\ result.message = None /\ cycle = 2

\* The ranker has been entered in this cycle (line 74 ran).
RankEntered == InCycle /\ pc \in {"returned", "raised"} /\ "games" \in DOMAIN data
RootKeyOf(a) == Key(RootPlayer, next_state(history, a))

\* C3. Both ranking strategies tolerate a root legal action whose entry was
\* never created: whenever the ranker is entered it completes, and an action
\* without an entry is listed with visits = 0.
RankerToleratesMissing ==
  RankEntered =>
     /\ result.type = "action"
     /\ \A i \in 1..Len(RootLegal) :
          RootKeyOf(RootLegal[i]) \notin DOMAIN stats =>
            \E j \in 1..Len(data.actions) :
               data.actions[j].action = RootLegal[i] /\ data.actions[j].plays = 0

\* The record the ranking strategy owes to root action a.
Expected(a) ==
  LET e == stats[RootKeyOf(a)]
      score == IF kind = "wins" THEN Quot(100 * e.value, OrOne(e.visits))
               ELSE Quot(e.value, OrOne(e.visits))
  IN [action |-> a, score |-> score, total |-> e.value, plays |-> e.visits]
Listed(r) ==
  [action |-> r.action, score |-> ScoreOf(r),
   total |-> IF kind = "wins" THEN r.wins ELSE r.sum, plays |-> r.plays]
IsPermutation(f, n) == f \in [1..n -> 1..n] /\ \A i, j \in 1..n : f[i] = f[j] => i = j
Ordered(l) ==
  \A i \in 1..(Len(l) - 1) :
     \/ QuotLess(ScoreOf(l[i + 1]), ScoreOf(l[i]))
     \/ QuotEq(ScoreOf(l[i + 1]), ScoreOf(l[i])) /\ l[i + 1].plays <= l[i].plays
\* l holds exactly one record per root legal action, best first.
IsRanking(l) ==
  /\ Len(l) = Len(RootLegal)
  /\ \E f \in [1..Len(l) -> 1..Len(l)] :
        /\ IsPermutation(f, Len(l))
        /\ \A i \in 1..Len(l) :
              /\ l[i].action = RootLegal[f[i]]
              /\ Listed(l[i]).total = Expected(l[i].action).total
              /\ Listed(l[i]).plays = Expected(l[i].action).plays
              /\ QuotEq(Listed(l[i]).score, Expected(l[i].action).score)
  /\ Ordered(l)

\* C4. For every final table and two or more root legal actions the ranked
\* list holds one record per root legal action, ordered by score descending
\* and then by visits descending, and get_action returns its first action.
RankedListLaw ==
  RankEntered =>
     /\ result.type = "action"
     /\ IsRanking(data.actions)
     /\ result.message = to_json_action(data.actions[1].action)

\* C5 as stated: every returned record carries all seven diagnostics.
DiagnosticsComplete == (pc = "returned") => DOMAIN result.extras = AllKeys

\* C5, amended. Every returned record carries the exploration constant, the
\* depth cap and the engine name; the record of a full search carries in
\* addition the simulation count, the maximum depth, the elapsed time and
\* the ranked list, and the record of an early exit carries none of these.
DiagnosticsByPath ==
  (pc = "returned" /\ history # <<>>) =>
     /\ result.extras = data
     /\ BaseKeys \subseteq DOMAIN data
     /\ data.C = C /\ data.max_actions = max_actions /\ data.name = name
     /\ IF Len(RootLegal) >= 2
        THEN /\ DOMAIN data = AllKeys
             /\ data.games = games /\ data.max_depth = max_depth
             /\ data.time = str(elapsed)
             /\ Len(data.actions) = Len(RootLegal)
        ELSE DOMAIN data = BaseKeys
DiagnosticsWitness ==
  /\ pc = "returned" /\ history # <<>> /\ Len(RootLegal) >= 2
  /\ data.games >= 2 /\ data.max_depth >= 2

\* The states of a cycle before its first simulation has taken a step.
BeforeFirstStep ==
  /\ InSearch /\ games = 0
  /\ pc = "step" => t = 1 /\ invoked = 1
  /\ pc = "backprop" => visited_states = <<>>

\* C6. At the start of each cycle, before the first simulation, the table is
\* empty and the maximum-depth counter is 0, whatever earlier cycles left.
CycleStartsEmpty == BeforeFirstStep => DOMAIN stats = {} /\ max_depth = 0
CycleStartsEmptyWitness == pc = "step" /\ BeforeFirstStep /\ stale /\ cycle = 2

\* The sum of visits over the root-adjacent entries of the table.
RootAdjacent == {RootKeyOf(RootLegal[i]) : i \in 1..Len(RootLegal)} \cap DOMAIN stats
RECURSIVE VisitsOver(_)
VisitsOver(keys) ==
  IF keys = {} THEN 0
  ELSE LET k == CHOOSE x \in keys : TRUE IN stats[k].visits + VisitsOver(keys \ {k})
RootVisits == VisitsOver(RootAdjacent)

\* C7 as stated: after N completed simulations the root-adjacent visit sum
\* is at most N, in every game.
RootVisitsAtMostGames == InSearch => RootVisits <= games

\* The positions a playout from the root can stand at after its first move.
RECURSIVE ReachFrom(_)
ReachFrom(seen) ==
  LET more == seen \cup UNION {{B.succ[s][i] : i \in 1..Len(B.succ[s])} :
                                 s \in {x \in seen : ~B.ended[x]}}
  IN IF more = seen THEN seen ELSE ReachFrom(more)
RootChildren == {next_state(history, RootLegal[i]) : i \in 1..Len(RootLegal)}
\* No such position has the root mover to act with a move into the state of
\* a root child: a root-adjacent key is recorded at the first step only.
NoReentry ==
  \A s \in ReachFrom(RootChildren) :
     (~B.ended[s] /\ B.cur[s] = RootPlayer) =>
        {B.succ[s][i] : i \in 1..Len(B.succ[s])} \cap RootChildren = {}

\* C7, amended. After N completed simulations the root-adjacent visit sum is
\* at most N * max_actions, and at most N in every game in which no
\* position reached after the first move of a playout lets the root mover
\* move into the state of a root child.
RootVisitsBounded ==
  InSearch => /\ RootVisits <= games * max_actions
              /\ NoReentry => RootVisits <= games
RootVisitsWitness == pc = "loop" /\ NoReentry /\ games >= 2 /\ RootVisits = games

\* C8 as stated: every simulation (that takes a step) adds entries at
\* exactly one step.
ExpansionExactlyOnce ==
  (pc = "backprop" /\ visited_states # <<>>) => Cardinality(grew) = 1

\* C8, amended. Within one simulation the table gains entries at no more
\* than one step: at the first step whose candidate keys are not all in the
\* table if there is one, and at no step otherwise.
ExpansionAtMostOnce ==
  (pc \in {"step", "backprop"}) =>
     grew = IF first_missing = 0 THEN {} ELSE {first_missing}
ExpansionWitness ==
  /\ pc = "backprop" /\ first_missing = 1 /\ grew = {1}
  /\ Len(visited_states) >= 2 /\ visited_states[2] \notin DOMAIN stats

\* The indices of the visited list recorded after the expansion step.
RolloutIndices ==
  {i \in 1..Len(visited_states) : grew # {} /\ \A g \in grew : i > g}
Occurrences(k) == Cardinality({i \in 1..Len(visited_states) : visited_states[i] = k})

\* C9 as stated: back-propagation leaves unchanged every entry whose key was
\* recorded after the expansion step.
RolloutNeverCredited ==
  [][pc = "backprop" =>
       \A i \in RolloutIndices :
          visited_states[i] \in DOMAIN stats =>
             stats'[visited_states[i]] = stats[visited_states[i]]]_vars

\* C9, amended. A key recorded after the expansion step that is absent from
\* the table is not credited and gains no entry; one that is in the table is
\* credited like any other, once per occurrence on the visited list.
RolloutCreditedWhenPresent ==
  [][pc = "backprop" =>
       /\ DOMAIN stats' = DOMAIN stats
       /\ \A i \in RolloutIndices :
            LET k == visited_states[i]
            IN k \in DOMAIN stats =>
                 /\ stats'[k].visits = stats[k].visits + Occurrences(k)
                 /\ stats'[k].value = stats[k].value
                      + Occurrences(k) * end_values(history_copy)[k[1]]]_vars
RolloutWitness ==
  /\ pc = "backprop"
  /\ \E i \in RolloutIndices : visited_states[i] \in DOMAIN stats
  /\ \E i \in RolloutIndices : visited_states[i] \notin DOMAIN stats

\* The board has reported no legal action on a position that is not
\* terminal: the root, or the position a simulation stands at.
Stalemated(h) == h # <<>> /\ legal_actions(h) = <<>> /\ ~is_ended(h)
StalemateMet ==
  \/ Stalemated(history)
  \/ pc = "raised" /\ Stalemated(history_copy)

\* C10. When the board reports no legal action on a non-terminal position,
\* at the root or inside a simulation, the cycle ends with a null chosen
\* action and not with an internal error.
StalemateYieldsNull ==
  (pc \in {"returned", "raised"} /\ StalemateMet) =>
     result.type = "action" /\ result.message = None
\* The one-ply game: action 1 wins for the root mover, action 2 loses.
WinLossGame == Boards[board] = OnePly /\ kind = "wins" /\ C > 0

\* C11. In the one-ply win/loss game with C > 0, once three simulations
\* have run (hence after any longer run, a few dozen included) the win-rate
\* ranker lists the winning action first with score 100, whatever the
\* random picks were: its entry has visits >= 1 and total reward = visits.
WinningActionFirst ==
  (WinLossGame /\ pc = "returned" /\ "games" \in DOMAIN data /\ data.games >= 3) =>
     /\ data.actions[1].action = 1
     /\ QuotEq(data.actions[1].percent, Quot(100, 1))
     /\ stats[Key(1, 2)].visits >= 1
     /\ stats[Key(1, 2)].value = stats[Key(1, 2)].visits
     /\ result.message = to_json_action(1)
WinningActionWitness ==
  /\ WinLossGame /\ pc = "returned" /\ "games" \in DOMAIN data /\ data.games >= 3
  /\ stats[Key(1, 3)].visits = 2 /\ stats[Key(1, 2)].visits = 1
\* The candidate keys of the position a simulation stands at.
StepKeys ==
  LET as == ActionsStates(history_copy)
  IN {Key(sim_player, as[i][2]) : i \in 1..Len(as)}

\* C12. Within one decision cycle a key enters the table only in the
\* expansion step of a simulation, as a candidate key of that step and with
\* total reward 0 and visits 0; a key that is present is never removed or
\* replaced by a fresh entry, and its entry changes only in
\* back-propagation, where its visits do not decrease.
TableInvariant ==
  [][InSearch =>
       /\ DOMAIN stats \subseteq DOMAIN stats'
       /\ \A k \in DOMAIN stats' \ DOMAIN stats :
            pc = "step" /\ expand /\ k \in StepKeys /\ stats'[k] = Stat
       /\ \A k \in DOMAIN stats :
            /\ stats'[k].visits >= stats[k].visits
            /\ stats'[k] # stats[k] => pc = "backprop"]_vars
TableInvariantWitness ==
  /\ pc = "loop" /\ games >= 2 /\ deepest >= 2
  /\ \E k \in DOMAIN stats : stats[k].visits >= 2
  /\ \E k \in DOMAIN stats : stats[k].visits = 0
  /\ Cardinality(DOMAIN stats) >= 4
\* The states of the candidates UCB1 keeps at the position of this step,
\* computed on the table as it is at the moment of selection.
UcbStates(st) ==
  LET best == UcbFiltered(st, sim_player, ActionsStates(history_copy))
  IN {best[i][2] : i \in 1..Len(best)}

\* C13 as stated: at every step at which every candidate key is in the table
\* at the moment of selection, steps after the expansion step included, the
\* successor is picked among the candidates of maximal UCB1 score only.
UcbWheneverAllPresent ==
  [][(/\ pc = "step" /\ pc' \in {"step", "backprop"}
      /\ AllPresent(stats', sim_player, ActionsStates(history_copy)))
       => Last(history_copy') \in UcbStates(stats')]_vars
StepStates ==
  LET as == ActionsStates(history_copy) IN {as[i][2] : i \in 1..Len(as)}

\* C13, amended. UCB1 selects at the steps that begin with the expand flag
\* still set, the expansion step included: there every candidate key is in
\* the table at the moment of selection and the successor is one of the
\* candidates of maximal UCB1 score. At every step after the expansion step
\* the table is left alone and the successor is drawn from the full legal
\* set, whether or not every candidate key is in the table.
UcbWhileExpanding ==
  [][(pc = "step" /\ pc' \in {"step", "backprop"}) =>
       /\ expand => /\ AllPresent(stats', sim_player, ActionsStates(history_copy))
                    /\ Last(history_copy') \in UcbStates(stats')
       /\ ~expand => /\ stats' = stats
                     /\ Last(history_copy') \in StepStates]_vars
\* A step after the expansion step whose candidate keys are all in the
\* table and whose UCB1 scores single out a proper part of the candidates.
UcbWitness ==
  /\ pc = "step" /\ ~expand /\ visited_states # <<>>
  /\ AllPresent(stats, sim_player, ActionsStates(history_copy))
  /\ UcbStates(stats) # StepStates
  /\ \E k \in StepKeys : stats[k].visits >= 1
Mixed ==
  /\ \E k \in StepKeys : k \in DOMAIN stats
  /\ \E k \in StepKeys : k \notin DOMAIN stats

\* C14 as stated: at the start of every step the candidate keys are all in
\* the table or all absent from it, in every game.
NeverMixed == pc = "step" => ~Mixed

\* The positions other than the current one at which `p` is to act and `s`
\* is the resulting state of a legal action.
OtherParents(p, s) ==
  {x \in 1..Len(B.cur) :
     /\ x # Last(history_copy) /\ B.cur[x] = p /\ ~B.ended[x]
     /\ \E i \in 1..Len(B.succ[x]) : B.succ[x][i] = s}

\* C14, amended. A mixed candidate set arises only through successors shared
\* between positions: when, at the start of a step, some candidate keys are
\* in the table and some are not, every candidate key in the table is also
\* the key of a candidate of a different position with the same mover. In a
\* game where no two positions of one mover share a successor state the
\* candidate keys are all present or all absent.
MixedOnlyByShare ==
  (pc = "step" /\ Mixed) =>
     \A k \in StepKeys \cap DOMAIN stats : OtherParents(k[1], k[2]) # {}
MixedWitness ==
  /\ Boards[board] = Shared /\ pc = "step" /\ Mixed
  /\ Last(history_copy) = 4 /\ Key(1, 3) \in DOMAIN stats
  /\ Key(1, 5) \notin DOMAIN stats
\* C15. Back-propagation of one simulation: the reward mapping is
\* end_values of the final working history; every entry of the table gains
\* one visit and reward[mover] per occurrence of its key on the visited list,
\* an entry whose key does not occur is unchanged, and no entry is created.
BackpropExact ==
  [][pc = "backprop" =>
       LET reward == end_values(history_copy)
       IN /\ DOMAIN stats' = DOMAIN stats
          /\ \A k \in DOMAIN stats :
               /\ stats'[k].visits = stats[k].visits + Occurrences(k)
               /\ stats'[k].value = stats[k].value + Occurrences(k) * reward[k[1]]]_vars
\* A simulation has been back-propagated whose visited list held one key of
\* the table twice, next to an entry it left alone.
BackpropWitness ==
  /\ pc = "loop" /\ games = 1 /\ kind = "values"
  /\ \E k \in DOMAIN stats :
       Occurrences(k) = 2 /\ stats[k].visits = 2 /\ stats[k].value = 2
  /\ \E k \in DOMAIN stats : Occurrences(k) = 0 /\ stats[k] = Stat
StepDone ==
  /\ pc' \in {"step", "backprop"}
  /\ Len(visited_states') = Len(visited_states) + 1
  /\ Len(visited_states') <= max_actions
  /\ pc' = "backprop" <=>
       (is_ended(history_copy') \/ Len(visited_states') = max_actions)

\* C16. Every simulation terminates: each step of its loop is followed by
\* another step or by back-propagation, the loop takes at most max_actions
\* steps and none after the terminal test is true, so the visited list has
\* between 0 and max_actions entries when back-propagation begins.
SimulationTerminates ==
  [][pc = "step" => StepDone]_vars
\* C17. Neither run_simulation nor get_action changes the shared history:
\* it is at all times the sequence of states supplied through update, every
\* simulation works on a copy that extends it by the simulation's own moves,
\* and so every simulation of a cycle starts from the same root state.
SharedHistoryKept ==
  /\ history = [i \in 1..Len(supplied) |-> to_compact_state(supplied[i])]
  /\ InSearch => state = Last(history)
  /\ pc \in {"step", "backprop"} =>
       /\ Len(history_copy) = Len(history) + Len(visited_states)
       /\ SubSeq(history_copy, 1, Len(history)) = history
       /\ \A i \in 1..Len(visited_states) :
            visited_states[i][2] = history_copy[Len(history) + i]
\* The second cycle, on a history of two states, with a second simulation
\* under way that has already moved.
SharedHistoryWitness ==
  /\ cycle = 2 /\ Len(history) = 2 /\ pc = "step" /\ games >= 1
  /\ Len(visited_states) >= 1 /\ history_copy # history
\* C18. The deadline is tested only between simulations: when the deadline
\* is tested or the ranker runs, every simulation that was started has been
\* back-propagated; while a simulation runs it is the only one not yet
\* completed; once the simulation count is reported no simulation runs, and
\* the reported count is the number of completed (and of started)
\* simulations.
DeadlineBetweenSimulations ==
  /\ pc \in {"loop", "rank"} => invoked = games
  /\ pc \in {"step", "backprop"} => invoked = games + 1
  /\ "games" \in DOMAIN data =>
       /\ ~InSearch
       /\ data.games = games
       /\ data.games = invoked
DeadlineWitness ==
  /\ pc = "returned" /\ Len(legal) >= 2 /\ "games" \in DOMAIN data
  /\ data.games = 3 /\ invoked = 3
  /\ \E k \in DOMAIN stats : stats[k].visits >= 2
RootKeys == {RootKeyOf(RootLegal[i]) : i \in 1..Len(RootLegal)}

\* C19. In a cycle with max_actions >= 1 that searches: back-propagation of
\* every simulation credits the root child chosen at step 1, whose key is in
\* the table, with at least one visit; from the end of the first simulation
\* on, every root key is in the table, the root-adjacent visit sum is at
\* least the number of completed simulations, and the ranker's lookups
\* succeed.
RootKeysCredited ==
  [][(InSearch /\ max_actions >= 1) =>
       /\ pc = "backprop" =>
            LET k == visited_states[1]
            IN /\ k \in RootKeys /\ k \in DOMAIN stats
               /\ stats'[k].visits >= stats[k].visits + 1
       /\ (games' >= 1 /\ InSearch') =>
            /\ RootKeys \subseteq DOMAIN stats'
            /\ RootVisits' >= games'
            /\ ~LookupFails(stats', history, player, legal)]_vars
\* After two simulations the ranker is about to read a table in which the
\* root children hold more visits than simulations were run.
RootKeysWitness ==
  /\ pc = "rank" /\ max_actions >= 1 /\ games = 2 /\ Len(RootLegal) >= 2
  /\ RootKeys \subseteq DOMAIN stats /\ RootVisits >= 3
\* C20. Within one decision cycle the maximum-depth counter starts at 0,
\* never decreases, never exceeds max_actions and is at all times the
\* largest step index at which a simulation of the cycle added entries to
\* the table (0 if none did); steps after the expansion step do not raise
\* it, and the reported max_depth is the counter.
DepthCounterLaw ==
  [][/\ cycle' # cycle => max_depth' = 0
     /\ InSearch => max_depth' >= max_depth
     /\ max_depth' <= max_actions
     /\ max_depth' = deepest'
     /\ "max_depth" \in DOMAIN data' => data'.max_depth = max_depth']_vars
\* A simulation of three steps has ended in a cycle whose deepest expansion
\* was at step 2.
DepthCounterWitness ==
  /\ pc = "loop" /\ games >= 2 /\ max_actions = 3
  /\ Len(visited_states) = 3 /\ max_depth = 2 /\ deepest = 2
====
